---- MODULE Spec2Model ----
(***************************************************************************)
(* DashReactGrid: a spreadsheet grid component.  The model follows the     *)
(* functional component of src/unnamed/part_001 (the current version of    *)
(* DashReactGrid.react.js) together with the parsers of                    *)
(* src/src/demo/test.tsx (DateUtilities, NumberParser) and the number      *)
(* cell template of src/src/lib/CustomNumberCell.js.                       *)
(*                                                                         *)
(* Text is a sequence of one-character strings.  Values of the grid are    *)
(* records [t, n, s]: t is the JavaScript kind ("null", "nan", "num",      *)
(* "bool", "str"; "date"/"baddate" for Date objects inside cells), n the   *)
(* number (fixed point, SCALE units per 1; 0/1 for booleans; minutes since *)
(* the epoch for dates) and s the characters of a string.                  *)
(* The browser locale is en-US (the fallback of part_001 line 11).         *)
(***************************************************************************)
EXTENDS Integers, Sequences, FiniteSets, TLC

\* ------------------------------------------------------------------------
\* JavaScript values
\* ------------------------------------------------------------------------

Null == [t |-> "null", n |-> 0, s |-> <<>>]
NaN == [t |-> "nan", n |-> 0, s |-> <<>>]
Num(k) == [t |-> "num", n |-> k, s |-> <<>>]
Bool(b) == [t |-> "bool", n |-> IF b THEN 1 ELSE 0, s |-> <<>>]
Str(chars) == [t |-> "str", n |-> 0, s |-> chars]
DateObj(minutes) == [t |-> "date", n |-> minutes, s |-> <<>>]
InvalidDate == [t |-> "baddate", n |-> 0, s |-> <<>>]

\* JavaScript truthiness: null, NaN, 0, false and '' are falsy.
Truthy(v) ==
    CASE v.t = "null" -> FALSE
      [] v.t = "nan" -> FALSE
      [] v.t = "num" -> v.n # 0
      [] v.t = "bool" -> v.n = 1
      [] v.t = "str" -> v.s # <<>>
      [] OTHER -> TRUE

\* a !== b : NaN differs from everything, itself included.
StrictNotEqual(a, b) == a.t = "nan" \/ b.t = "nan" \/ a # b

\* a || b
OrElse(a, b) == IF Truthy(a) THEN a ELSE b

\* ------------------------------------------------------------------------
\* Characters and strings
\* ------------------------------------------------------------------------

DigitChars == <<"0", "1", "2", "3", "4", "5", "6", "7", "8", "9">>
IsDigit(c) == \E i \in 1..10 : DigitChars[i] = c
DigitOf(c) == (CHOOSE i \in 1..10 : DigitChars[i] = c) - 1

IsSpace(c) == c \in {" ", "\t", "\n", "\r"}

RECURSIVE TrimLeft(_)
TrimLeft(x) == IF x # <<>> /\ IsSpace(Head(x)) THEN TrimLeft(Tail(x)) ELSE x

RECURSIVE TrimRight(_)
TrimRight(x) ==
    IF x # <<>> /\ IsSpace(x[Len(x)]) THEN TrimRight(SubSeq(x, 1, Len(x) - 1)) ELSE x

\* String.prototype.trim
Trim(x) == TrimRight(TrimLeft(x))

\* x.replace(/[c]/g, "")
RemoveAll(x, c) == SelectSeq(x, LAMBDA ch : ch # c)

\* x.replace(c, "") : the first occurrence only
RECURSIVE RemoveFirst(_, _)
RemoveFirst(x, c) ==
    IF x = <<>> THEN <<>>
    ELSE IF Head(x) = c THEN Tail(x)
    ELSE <<Head(x)>> \o RemoveFirst(Tail(x), c)

\* x.split(sep) for a one-character separator: always at least one piece.
RECURSIVE Split(_, _)
Split(x, sep) ==
    IF \A i \in 1..Len(x) : x[i] # sep THEN <<x>>
    ELSE LET k == CHOOSE i \in 1..Len(x) : x[i] = sep /\ \A j \in 1..(i - 1) : x[j] # sep
         IN <<SubSeq(x, 1, k - 1)>> \o Split(SubSeq(x, k + 1, Len(x)), sep)

\* pieces.join(sep)
RECURSIVE Join(_, _)
Join(pieces, sep) ==
    IF pieces = <<>> THEN <<>>
    ELSE IF Len(pieces) = 1 THEN pieces[1]
    ELSE pieces[1] \o <<sep>> \o Join(Tail(pieces), sep)

LowerChar(c) ==
    CASE c = "T" -> "t" [] c = "R" -> "r" [] c = "U" -> "u" [] c = "E" -> "e"
      [] c = "Y" -> "y" [] c = "S" -> "s" [] c = "F" -> "f" [] c = "A" -> "a"
      [] c = "L" -> "l" [] c = "N" -> "n" [] c = "O" -> "o"
      [] OTHER -> c

Lower(x) == [i \in 1..Len(x) |-> LowerChar(x[i])]

RECURSIVE Pow10(_)
Pow10(k) == IF k = 0 THEN 1 ELSE 10 * Pow10(k - 1)

\* The digits of a natural number, most significant first.
RECURSIVE NatToChars(_)
NatToChars(k) ==
    IF k < 10 THEN <<DigitChars[k + 1]>>
    ELSE NatToChars(k \div 10) \o <<DigitChars[(k % 10) + 1]>>

\* The number written by a run of digits.
RECURSIVE CharsToNat(_)
CharsToNat(x) ==
    IF x = <<>> THEN 0
    ELSE 10 * CharsToNat(SubSeq(x, 1, Len(x) - 1)) + DigitOf(x[Len(x)])

AllDigits(x) == \A i \in 1..Len(x) : IsDigit(x[i])

\* k written with at least w digits (padStart(w, "0")).
RECURSIVE Pad(_, _)
Pad(x, w) == IF Len(x) >= w THEN x ELSE Pad(<<"0">> \o x, w)

\* Fixed-point unit of the numbers of the model: 1 is SCALE, 0.005 is 50.
FracDigits == 4
SCALE == Pow10(FracDigits)

\* ------------------------------------------------------------------------
\* Numbers: NumberParser / PercentParser (en-US: group ",", decimal ".",
\* percent sign "%", no literal part) and Number.prototype.toLocaleString
\* ------------------------------------------------------------------------

\* The value of the digits after the decimal point, in SCALE units (digits
\* beyond FracDigits are dropped).
FracValue(x) ==
    CharsToNat(IF Len(x) >= FracDigits THEN SubSeq(x, 1, FracDigits) ELSE x)
    * (IF Len(x) >= FracDigits THEN 1 ELSE Pow10(FracDigits - Len(x)))

\* An unsigned decimal literal: digits, digits., digits.digits or .digits
DecimalValue(pieces) ==
    IF Len(pieces) > 2 \/ pieces[1] \o pieces[Len(pieces)] = <<>>
       \/ ~AllDigits(pieces[1] \o pieces[Len(pieces)])
    THEN NaN
    ELSE Num(CharsToNat(pieces[1]) * SCALE
             + (IF Len(pieces) = 2 THEN FracValue(pieces[2]) ELSE 0))

UnsignedToNumber(x) == DecimalValue(Split(x, "."))

\* +string : white space is trimmed, '' is 0, an optional sign, then a decimal
\* literal; anything else is NaN.  (Exponents, hex literals and Infinity are
\* not among the texts of the model.)
Negate(u) == IF u.t = "num" THEN Num(0 - u.n) ELSE NaN

SignedToNumber(t) ==
    IF t = <<>> THEN Num(0)
    ELSE IF Head(t) = "-" THEN Negate(UnsignedToNumber(Tail(t)))
    ELSE UnsignedToNumber(IF Head(t) = "+" THEN Tail(t) ELSE t)

ToNumber(x) == SignedToNumber(Trim(x))

\* NumberParser.parse
NumberOrNaN(string) == IF string # <<>> THEN ToNumber(string) ELSE NaN

NumberParserParse(x) == NumberOrNaN(RemoveAll(Trim(x), ","))

\* PercentParser.parse
\* number / 100
Hundredth(number) ==
    IF number.t = "num"
    THEN Num(IF number.n >= 0 THEN number.n \div 100 ELSE 0 - ((0 - number.n) \div 100))
    ELSE NaN

PercentParserParse(x) == Hundredth(NumberOrNaN(RemoveFirst(RemoveAll(Trim(x), ","), "%")))

RECURSIVE StripZeros(_)
StripZeros(x) ==
    IF x # <<>> /\ x[Len(x)] = "0" THEN StripZeros(SubSeq(x, 1, Len(x) - 1)) ELSE x

\* number.toLocaleString('en-US', {useGrouping: false, maximumFractionDigits: 17})
Fraction(frac) == IF frac = <<>> THEN <<>> ELSE <<".">> \o frac

FormatUnsigned(a) ==
    NatToChars(a \div SCALE) \o Fraction(StripZeros(Pad(NatToChars(a % SCALE), FracDigits)))

FormatNumber(k) == IF k < 0 THEN <<"-">> \o FormatUnsigned(0 - k) ELSE FormatUnsigned(k)

\* String(value)
ToStringJS(v) ==
    CASE v.t = "null" -> <<"n", "u", "l", "l">>
      [] v.t = "nan" -> <<"N", "a", "N">>
      [] v.t = "num" -> FormatNumber(v.n)
      [] v.t = "bool" -> IF v.n = 1 THEN <<"t", "r", "u", "e">>
                         ELSE <<"f", "a", "l", "s", "e">>
      [] OTHER -> v.s

\* ------------------------------------------------------------------------
\* Dates: Date, toLocaleDateString('en-CA'), luxon's DateTime.fromFormat /
\* fromISO.  An instant is a number of minutes since 1970-01-01T00:00Z; tz is
\* the browser's offset from UTC in minutes.
\* ------------------------------------------------------------------------

MinutesPerDay == 24 * 60

DayOfEra(yoe, mp, d) ==
    yoe * 365 + yoe \div 4 - yoe \div 100 + (153 * mp + 2) \div 5 + d - 1

\* The day number of a civil date, counted from 1970-01-01; yy is the year
\* of a calendar that starts in March.
DaysFromMarchYear(yy, m, d) ==
    (yy \div 400) * 146097 + DayOfEra(yy % 400, (m + 9) % 12, d) - 719468

DaysFromCivil(y, m, d) == DaysFromMarchYear(IF m <= 2 THEN y - 1 ELSE y, m, d)

CivilOfMonth(y, mp, d) ==
    [y |-> IF mp < 10 THEN y ELSE y + 1, m |-> IF mp < 10 THEN mp + 3 ELSE mp - 9, d |-> d]

CivilOfDayOfYear(y, doy) ==
    CivilOfMonth(y, (5 * doy + 2) \div 153, doy - (153 * ((5 * doy + 2) \div 153) + 2) \div 5 + 1)

CivilOfYearOfEra(era, doe, yoe) ==
    CivilOfDayOfYear(yoe + era * 400, doe - (365 * yoe + yoe \div 4 - yoe \div 100))

CivilOfDayOfEra(era, doe) ==
    CivilOfYearOfEra(era, doe,
                     (doe - doe \div 1460 + doe \div 36524 - doe \div 146096) \div 365)

\* The civil date [y, m, d] of a day number.
CivilFromDays(z) == CivilOfDayOfEra((z + 719468) \div 146097, (z + 719468) % 146097)

IsLeap(y) == (y % 4 = 0 /\ y % 100 # 0) \/ y % 400 = 0

DaysInMonth(y, m) ==
    IF m = 2 THEN (IF IsLeap(y) THEN 29 ELSE 28)
    ELSE IF m \in {4, 6, 9, 11} THEN 30 ELSE 31

\* <<the day number of y-m-d>>, or <<>> when there is no such date.
DaysOrNone(ok, y, m, d) ==
    IF ok /\ m \in 1..12 /\ d >= 1 /\ d <= DaysInMonth(y, m)
    THEN <<DaysFromCivil(y, m, d)>> ELSE <<>>

CivilChars(c) ==
    Pad(NatToChars(c.y), 4) \o <<"-">> \o Pad(NatToChars(c.m), 2)
    \o <<"-">> \o Pad(NatToChars(c.d), 2)

\* YYYY-MM-DD of a day number
IsoDateChars(days) == CivilChars(CivilFromDays(days))

\* <<the day number written by yyyy-MM-dd>>, or <<>> when x is no such date.
IsoDateDays(x) ==
    DaysOrNone(Len(x) = 10 /\ x[5] = "-" /\ x[8] = "-"
                  /\ AllDigits(SubSeq(x, 1, 4) \o SubSeq(x, 6, 7) \o SubSeq(x, 9, 10)),
               CharsToNat(SubSeq(x, 1, 4)), CharsToNat(SubSeq(x, 6, 7)),
               CharsToNat(SubSeq(x, 9, 10)))

\* The Date of a day number and an offset in minutes; none for no day.
DateOfDays(days, minutes, none) ==
    IF days # <<>> THEN DateObj(days[1] * MinutesPerDay + minutes) ELSE none

\* new Date(value): a date-only ISO string is midnight UTC, null is the epoch,
\* a luxon DateTime (already an instant) is its instant, any other string of
\* the model is an Invalid Date.
NewDate(v) ==
    CASE v.t = "null" -> DateObj(0)
      [] v.t = "date" -> v
      [] v.t = "str" -> DateOfDays(IsoDateDays(v.s), 0, InvalidDate)
      [] OTHER -> InvalidDate

\* date.toLocaleDateString('en-CA').slice(0, 10)
ToLocaleDateStringCA(d, tz) ==
    IF d.t = "date" THEN IsoDateChars((d.n + tz) \div MinutesPerDay)
    ELSE <<"I", "n", "v", "a", "l", "i", "d", " ", "D", "a">>

\* luxon's two-digit year: above the cutoff 60 it is 19yy, else 20yy.
TwoDigitYear(yy) == IF yy > 60 THEN 1900 + yy ELSE 2000 + yy

\* DateTime.fromFormat(text, "MM/dd/yy"): the short pattern of en-US, a local
\* midnight.
FromShortPattern(x, tz) ==
    DateOfDays(DaysOrNone(Len(x) = 8 /\ x[3] = "/" /\ x[6] = "/"
                             /\ AllDigits(SubSeq(x, 1, 2) \o SubSeq(x, 4, 5) \o SubSeq(x, 7, 8)),
                          TwoDigitYear(CharsToNat(SubSeq(x, 7, 8))),
                          CharsToNat(SubSeq(x, 1, 2)), CharsToNat(SubSeq(x, 4, 5))),
               0 - tz, Null)

\* DateTime.fromISO(text) for a calendar date yyyy-MM-dd: local midnight.
FromISO(x, tz) == DateOfDays(IsoDateDays(x), 0 - tz, Null)

\* parseLocaleDate: the locale's short pattern, then the time stamp pattern
\* yyyy-MM-dd'T'HH:mm:ss.SSSZZ (no text of the model has its 29 characters),
\* then ISO; null when nothing matches.
FirstValid(dt, iso) == IF dt.t = "date" THEN dt ELSE iso

parseLocaleDate(x, tz) == FirstValid(FromShortPattern(x, tz), FromISO(x, tz))

\* ------------------------------------------------------------------------
\* Cells.  A column is [columnId, type, title, values]; values is the option
\* list of a dropdown column, each option [value, label].  A cell is
\* [type, text, value, date, checked, selectedValue, isOpen], the fields a
\* cell of its type does not have being Null (style, nonEditable and format
\* only feed the rendering library and are left out).
\* ------------------------------------------------------------------------

EmptyStr == Str(<<>>)

BlankCell ==
    [type |-> "text", text |-> Null, value |-> Null, date |-> Null,
     checked |-> Null, selectedValue |-> Null, isOpen |-> FALSE]

\* column.values.find(option => option.value === value)?.label || ''
\* Array.prototype.find: the first option among the hits, if any.
FirstHit(options, hits, field, none) ==
    IF hits = {} THEN none
    ELSE OrElse(options[CHOOSE i \in hits : \A j \in hits : i <= j][field], EmptyStr)

LabelOfValue(column, value) ==
    FirstHit(column.values,
             {i \in 1..Len(column.values) : ~StrictNotEqual(column.values[i].value, value)},
             "label", EmptyStr)

\* String(value || '')
StringOrEmpty(value) == IF Truthy(value) THEN Str(ToStringJS(value)) ELSE EmptyStr

createCell(column, value, isOpen) ==
    CASE column.type = "text" ->
            [BlankCell EXCEPT !.type = "text", !.text = StringOrEmpty(value)]
      [] column.type = "number" ->
            [BlankCell EXCEPT !.type = "customnumber", !.value = value]
      [] column.type = "percent" ->
            [BlankCell EXCEPT !.type = "percent", !.value = value]
      [] column.type = "date" ->
            [BlankCell EXCEPT !.type = "date",
                              !.date = IF Truthy(value) THEN NewDate(value) ELSE Null]
      [] column.type = "checkbox" ->
            [BlankCell EXCEPT !.type = "checkbox", !.checked = Bool(Truthy(value))]
      [] column.type = "dropdown" ->
            [BlankCell EXCEPT !.type = "dropdown", !.selectedValue = value,
                              !.text = LabelOfValue(column, value), !.isOpen = isOpen]
      [] OTHER ->
            [BlankCell EXCEPT !.type = "text", !.text = StringOrEmpty(value)]

\* The outcome of reading a property of null: a TypeError.
Thrown == [t |-> "throw", n |-> 0, s |-> <<>>]

getCellDataByType(type, cell, tz) ==
    CASE type = "text" -> cell.text
      [] type \in {"number", "customnumber", "percent"} -> cell.value
      [] type = "date" ->
            IF cell.date.t \in {"date", "baddate"}
            THEN Str(ToLocaleDateStringCA(cell.date, tz))
            ELSE Thrown
      [] type = "checkbox" -> cell.checked
      [] type = "dropdown" -> cell.selectedValue
      [] OTHER -> OrElse(cell.text, OrElse(cell.value, OrElse(cell.date,
                    OrElse(cell.checked, EmptyStr))))

TrueTexts == {<<"t", "r", "u", "e">>, <<"1">>, <<"y", "e", "s">>}
FalseTexts == {<<"f", "a", "l", "s", "e">>, <<"0">>, <<"n", "o">>}

\* col.values.find(option => option.label === t)?.value || ''
ValueOfLabel(col, t) ==
    FirstHit(col.values, {i \in 1..Len(col.values) : col.values[i].label = Str(t)},
             "value", Null)

\* /^(true|1|yes)$/i and /^(false|0|no)$/i
ParseCheckbox(lower) ==
    IF lower \in TrueTexts THEN Bool(TRUE)
    ELSE IF lower \in FalseTexts THEN Bool(FALSE) ELSE Null

ParseTrimmed(t, col, tz) ==
    CASE col.type \in {"number", "customnumber"} -> NumberParserParse(t)
      [] col.type = "percent" -> PercentParserParse(t)
      [] col.type = "date" ->
            Str(ToLocaleDateStringCA(NewDate(parseLocaleDate(t, tz)), tz))
      [] col.type = "checkbox" -> ParseCheckbox(Lower(t))
      [] col.type = "dropdown" -> ValueOfLabel(col, t)
      [] OTHER -> Str(t)

parseToValue(text, col, tz) == ParseTrimmed(Trim(text), col, tz)

\* value?.toLocaleString(locale, ...) || '' : a string formats as itself.
NumberAsString(value) ==
    CASE value.t = "null" -> EmptyStr
      [] value.t = "num" -> Str(FormatNumber(value.n))
      [] OTHER -> Str(ToStringJS(value))

getValueAsString(col, value) ==
    CASE col.type \in {"number", "customnumber", "percent"} -> NumberAsString(value)
      [] col.type = "date" -> value
      [] col.type = "checkbox" -> Str(ToStringJS(value))
      [] col.type = "dropdown" -> Str(ToStringJS(LabelOfValue(col, value)))
      [] OTHER -> Str(ToStringJS(value))

HeaderRowId == -1

HeaderCell(col) == [BlankCell EXCEPT !.type = "header", !.text = col.title]

NullRow(cols) == [c \in 1..Len(cols) |-> Null]

NullCellsRow(cols, rowId) ==
    [rowId |-> rowId, cells |-> [c \in 1..Len(cols) |-> createCell(cols[c], Null, FALSE)]]

\* Row k+1 of the result renders data row k (index 0 in the code is the header).
buildCellsFromData(d, cols) ==
    <<[rowId |-> HeaderRowId, cells |-> [c \in 1..Len(cols) |-> HeaderCell(cols[c])]]>>
    \o [r \in 1..Len(d) |->
          [rowId |-> r - 1,
           cells |-> [c \in 1..Len(d[r]) |-> createCell(cols[c], d[r][c], FALSE)]]]

\* ------------------------------------------------------------------------
\* applyChanges.  A change is [rowId, columnId, previousCell, newCell]; rowId
\* counts data rows from 0 as in the code, so data row rowId is d[rowId + 1]
\* and its rendered row is cells[rowId + 2].
\* ------------------------------------------------------------------------

\* columnLookup.get(columnId): the 1-based index of the column, 0 for undefined
\* (a Map keeps the last index set for a key).
LastOf(hits) == IF hits = {} THEN 0 ELSE CHOOSE i \in hits : \A j \in hits : j <= i

columnLookup(cols, columnId) == LastOf({i \in 1..Len(cols) : cols[i].columnId = columnId})

\* row.some((v) => v)
SomeTruthy(row) == \E c \in 1..Len(row) : Truthy(row[c])

\* while (newData.length <= rowId) push a row of nulls and its cells
RECURSIVE ExtendRows(_, _, _)
ExtendRows(st, rowId, cols) ==
    IF Len(st.data) <= rowId
    THEN ExtendRows([st EXCEPT !.data = Append(st.data, NullRow(cols)),
                               !.cells = Append(st.cells, NullCellsRow(cols, Len(st.data))),
                               !.changed = TRUE],
                    rowId, cols)
    ELSE st

\* newCells[rowId + 1] = { rowId, cells: [...] with the cell of colIdx replaced }
SetCell(cs, rowId, colIdx, cell) ==
    [cs EXCEPT ![rowId + 2] = [rowId |-> rowId,
                               cells |-> [cs[rowId + 2].cells EXCEPT ![colIdx] = cell]]]

\* The rest of the body of changes.forEach once the two values are read.
WriteChange(st1, ch, col, colIdx, previousValue, newValue) ==
    IF previousValue = Thrown \/ newValue = Thrown
       \/ ch.rowId + 1 > Len(st1.data) \/ ch.rowId + 2 > Len(st1.cells)
    THEN [st1 EXCEPT !.threw = TRUE]
    ELSE IF StrictNotEqual(previousValue, newValue) \/ ch.newCell.type = "dropdown"
    THEN [st1 EXCEPT
            !.changed = @ \/ StrictNotEqual(previousValue, newValue),
            !.data = IF StrictNotEqual(previousValue, newValue)
                     THEN [@ EXCEPT ![ch.rowId + 1][colIdx] = newValue] ELSE @,
            !.diff = IF StrictNotEqual(previousValue, newValue)
                     THEN Append(@, [rowId |-> ch.rowId, columnId |-> ch.columnId,
                                     previousValue |-> previousValue,
                                     newValue |-> newValue])
                     ELSE @,
            !.cells = SetCell(@, ch.rowId, colIdx,
                              createCell(col,
                                         IF StrictNotEqual(previousValue, newValue)
                                         THEN newValue ELSE st1.data[ch.rowId + 1][colIdx],
                                         ~StrictNotEqual(previousValue, newValue)
                                            /\ ch.newCell.isOpen))]
    ELSE st1

\* The body of changes.forEach for one change whose column exists.
ApplyToColumn(st, ch, cols, colIdx, ext, maxRowId, tz) ==
    IF ch.rowId < 0 \/ (~ext /\ ch.rowId >= maxRowId)
    THEN st
    ELSE WriteChange(IF ch.rowId >= maxRowId /\ ext THEN ExtendRows(st, ch.rowId, cols)
                     ELSE st,
                     ch, cols[colIdx], colIdx,
                     getCellDataByType(cols[colIdx].type, ch.previousCell, tz),
                     getCellDataByType(cols[colIdx].type, ch.newCell, tz))

\* The body of changes.forEach for one change.
ApplyChange(st, ch, cols, ext, maxRowId, tz) ==
    IF st.threw \/ columnLookup(cols, ch.columnId) = 0
    THEN st
    ELSE ApplyToColumn(st, ch, cols, columnLookup(cols, ch.columnId), ext, maxRowId, tz)

RECURSIVE ApplyEach(_, _, _, _, _, _)
ApplyEach(st, changes, cols, ext, maxRowId, tz) ==
    IF changes = <<>> THEN st
    ELSE ApplyEach(ApplyChange(st, Head(changes), cols, ext, maxRowId, tz),
                   Tail(changes), cols, ext, maxRowId, tz)

\* while (newData.length > 1 && !last row has a truthy value) pop
RECURSIVE TrimRows(_)
TrimRows(st) ==
    IF Len(st.data) > 1 /\ ~SomeTruthy(st.data[Len(st.data)])
    THEN TrimRows([st EXCEPT !.data = SubSeq(st.data, 1, Len(st.data) - 1),
                             !.cells = SubSeq(st.cells, 1, Len(st.cells) - 1)])
    ELSE st

\* An appended row that holds one null whatever the number of columns.
AppendOneNull(st, cols) ==
    IF Len(st.data) > 0 /\ SomeTruthy(st.data[Len(st.data)])
    THEN [st EXCEPT !.data = Append(st.data, <<Null>>),
                    !.cells = Append(st.cells, NullCellsRow(cols, Len(st.data)))]
    ELSE st

\* if (newData.length > 0 && last row has a truthy value) push an empty row
AppendEmptyRow(st, cols) ==
    IF Len(st.data) > 0 /\ SomeTruthy(st.data[Len(st.data)])
    THEN [st EXCEPT !.data = Append(st.data, NullRow(cols)),
                    !.cells = Append(st.cells, NullCellsRow(cols, Len(st.data)))]
    ELSE st

\* if (newData.length !== maxRowId) dataChanged = true
NoteLength(st2, maxRowId) ==
    IF Len(st2.data) # maxRowId THEN [st2 EXCEPT !.changed = TRUE] ELSE st2

\* The extendable part of applyChanges: trailing rows trimmed, one appended.
Extendable(st, cols, maxRowId) == NoteLength(AppendEmptyRow(TrimRows(st), cols), maxRowId)

AfterEach(st1, cols, ext, maxRowId) ==
    IF st1.threw \/ ~ext THEN st1 ELSE Extendable(st1, cols, maxRowId)

\* The updater of applyChanges run on (prevData, prevCells): the new data and
\* cells, the recorded diff, dataChanged, and whether a TypeError was raised.
applyChangesResult(prevData, prevCells, changes, cols, ext, tz) ==
    AfterEach(ApplyEach([data |-> prevData, cells |-> prevCells, diff |-> <<>>,
                         changed |-> FALSE, threw |-> FALSE],
                        changes, cols, ext, Len(prevData), tz),
              cols, ext, Len(prevData))

\* prev.slice(0, n): a negative n counts from the end, a large n is clamped.
SliceTo(h, n) ==
    IF n < 0 THEN SubSeq(h, 1, IF Len(h) + n > 0 THEN Len(h) + n ELSE 0)
    ELSE SubSeq(h, 1, IF n < Len(h) THEN n ELSE Len(h))

\* [...prev.slice(0, historyIndex + 1), diff]
PushHistory(h, hIdx, diff) == Append(SliceTo(h, hIdx + 1), diff)

\* ------------------------------------------------------------------------
\* Clipboard: selectedRangeToTable and the rows handlePaste reads.  A range is
\* [r1, r2, c1, c2]: first/last row idx (0 is the header row) and first/last
\* column idx (from 0), as the grid library reports them.
\* ------------------------------------------------------------------------

\* Array.prototype.join writes null and undefined as ''.
JoinText(v) == IF v.t = "null" THEN <<>> ELSE ToStringJS(v)

\* Reading gridData[row - 1][column] or columnsMemo[column].type outside the
\* grid is a TypeError.
RangeInGrid(range, d, cols) ==
    /\ range.r2 <= Len(d)
    /\ range.c2 <= Len(cols) - 1

\* The text of the cell at row idx row (0 is the header) and 1-based column.
TableCell(row, column, d, cols) ==
    JoinText(getValueAsString(cols[column],
                              IF row = 0 THEN cols[column].title ELSE d[row][column]))

selectedRangeToTable(range, d, cols) ==
    Join([i \in 1..(range.r2 - range.r1 + 1) |->
            Join([j \in 1..(range.c2 - range.c1 + 1) |->
                    TableCell(range.r1 + i - 1, range.c1 + j, d, cols)],
                 "\t")],
         "\n")

\* text.replace(/(\r\n)$/, "")
StripFinalCRLF(x) ==
    IF Len(x) >= 2 /\ x[Len(x) - 1] = "\r" /\ x[Len(x)] = "\n"
    THEN SubSeq(x, 1, Len(x) - 2) ELSE x

\* The text/plain branch of handlePaste: rows of cell texts.
CellTexts(parts) == [j \in 1..Len(parts) |-> RemoveFirst(parts[j], "\r")]

RowsOfLines(lines) == [i \in 1..Len(lines) |-> CellTexts(Split(lines[i], "\t"))]

PlainRows(x) == RowsOfLines(Split(StripFinalCRLF(x), "\n"))

\* gridData[rowId]?.[colIdx] || null
PrevVal(d, rowId, colIdx) ==
    IF rowId + 1 <= Len(d) /\ colIdx + 1 <= Len(d[rowId + 1])
    THEN OrElse(d[rowId + 1][colIdx + 1], Null) ELSE Null

\* The change handlePaste builds for one pasted cell text.
PasteChange(text, rowId, colIdx, column, d, tz) ==
    [rowId |-> rowId,
     columnId |-> column.columnId,
     previousCell |-> createCell(column, PrevVal(d, rowId, colIdx), FALSE),
     newCell |-> createCell(column, parseToValue(text, column, tz), FALSE)]

\* The cells of a pasted row that fall on a column of the grid.
KeptCells(row, c1, cols) ==
    SelectSeq([ci \in 1..Len(row) |-> ci], LAMBDA ci : c1 + (ci - 1) < Len(cols))

ChangesOfKept(row, kept, rowId, c1, d, cols, tz) ==
    [k \in 1..Len(kept) |->
        PasteChange(row[kept[k]], rowId, c1 + (kept[k] - 1),
                    cols[c1 + kept[k]], d, tz)]

\* The changes handlePaste builds for pasted row ri (from 0), cell by cell.
PasteRowChanges(row, ri, range, d, cols, ext, tz) ==
    IF range.r1 + ri - 1 < 0 \/ (~ext /\ range.r1 + ri - 1 >= Len(d)) THEN <<>>
    ELSE ChangesOfKept(row, KeptCells(row, range.c1, cols), range.r1 + ri - 1,
                       range.c1, d, cols, tz)

RECURSIVE PasteChanges(_, _, _, _, _, _, _)
PasteChanges(rows, ri, range, d, cols, ext, tz) ==
    IF ri >= Len(rows) THEN <<>>
    ELSE PasteRowChanges(rows[ri + 1], ri, range, d, cols, ext, tz)
         \o PasteChanges(rows, ri + 1, range, d, cols, ext, tz)

\* ------------------------------------------------------------------------
\* The component
\* ------------------------------------------------------------------------

VARIABLES
    columns,        \* prop: the column definitions (never changed here)
    isExtendable,   \* prop
    tz,             \* the browser's offset from UTC, in minutes
    data,           \* prop: the host's data
    selectedRange,  \* prop: list of ranges, <<>> when unset
    selectedCell,   \* prop: <<>> when unset, else <<location>>
    gridData,       \* useState
    cells,          \* useState
    history,        \* useState
    historyIndex,   \* useState
    timer,          \* the pending report of updateDataRef: <<>> or <<data>>
    mounted,
    reported,       \* the argument of the last setProps({data}): <<>> or <<data>>
    clipboard,      \* text/plain of the system clipboard
    last,           \* the last handler that ran: [op, arg, ret, threw, sent]
    steps           \* number of user and host events so far

vars == <<columns, isExtendable, tz, data, selectedRange, selectedCell, gridData,
          cells, history, historyIndex, timer, mounted, reported, clipboard, last,
          steps>>

props == <<columns, isExtendable, tz>>

\* Bound of the model: the number of user and host events of a run.
MaxSteps == 2

T_a == <<"a">>
T_b == <<"b">>
T_date1 == <<"2", "0", "2", "4", "-", "0", "1", "-", "1", "5">>
T_short == <<"0", "3", "/", "0", "1", "/", "2", "4">>

ColText == [columnId |-> "t", type |-> "text", title |-> Str(<<"T">>), values |-> <<>>]
ColNumber == [columnId |-> "n", type |-> "number", title |-> Str(<<"N">>), values |-> <<>>]
ColPercent == [columnId |-> "p", type |-> "percent", title |-> Str(<<"P">>), values |-> <<>>]
ColDate == [columnId |-> "d", type |-> "date", title |-> Str(<<"D">>), values |-> <<>>]
ColCheckbox == [columnId |-> "c", type |-> "checkbox", title |-> Str(<<"C">>), values |-> <<>>]
ColDropdown ==
    [columnId |-> "s", type |-> "dropdown", title |-> Str(<<"S">>),
     values |-> <<[value |-> Str(T_a), label |-> Str(<<"A">>)],
                  [value |-> Num(0), label |-> Str(<<"Z">>)]>>]

\* The column sets of the model: every column type occurs.
Configs == {<<ColText, ColNumber>>, <<ColDate, ColCheckbox>>, <<ColDropdown, ColPercent>>}

\* A value a host stores in a column of the given type.
FilledValue(col) ==
    CASE col.type = "text" -> Str(T_a)
      [] col.type = "number" -> Num(5 * SCALE)
      [] col.type = "percent" -> Num(SCALE \div 2)
      [] col.type = "date" -> Str(T_date1)
      [] col.type = "checkbox" -> Bool(TRUE)
      [] OTHER -> Str(T_a)

\* A falsy value of the column's type that is not null.
FalsyValue(col) ==
    CASE col.type = "text" -> EmptyStr
      [] col.type = "number" -> Num(0)
      [] col.type = "percent" -> Num(0)
      [] col.type = "date" -> EmptyStr
      [] col.type = "checkbox" -> Bool(FALSE)
      [] OTHER -> Num(0)

FilledRow(cols) == [c \in 1..Len(cols) |-> FilledValue(cols[c])]

\* First column filled, the others falsy but not null.
MixedRow(cols) ==
    [c \in 1..Len(cols) |-> IF c = 1 THEN FilledValue(cols[c]) ELSE FalsyValue(cols[c])]

\* The data a host may deliver: rows of length columns.length; an empty grid,
\* rows holding null, falsy and filled cells, with and without an empty last
\* row.
HostData(cols) ==
    {<<>>, <<NullRow(cols)>>, <<MixedRow(cols)>>, <<FilledRow(cols), MixedRow(cols)>>,
     <<MixedRow(cols), NullRow(cols)>>}

TimeZones(cols) ==
    IF \E c \in 1..Len(cols) : cols[c].type = "date" THEN {0, -300} ELSE {0}

\* The argument of a handler: the range list of a selection event, the rows
\* of cell texts a paste read, the row and column of an edit, the location of
\* a focus change; what does not apply is <<>>.
NoArg == [ranges |-> <<>>, rows |-> <<>>, at |-> <<>>, loc |-> <<>>]

\* What is recorded of a handler's run: its name, its argument, what it
\* returned, whether it raised an error, and its calls of setProps.
Event(op, arg, ret, threw, sent) ==
    [op |-> op, arg |-> arg, ret |-> ret, threw |-> threw, sent |-> sent]

NoEvent == Event("mount", NoArg, "undefined", FALSE, <<>>)

\* After construction and the mount effects: gridData is the data prop, cells
\* are built from it, and the report effect has armed its timer.
Init ==
    /\ columns \in Configs
    /\ isExtendable \in BOOLEAN
    /\ tz \in TimeZones(columns)
    /\ data \in HostData(columns)
    /\ selectedRange = <<>>
    /\ selectedCell = <<>>
    /\ gridData = data
    /\ cells = buildCellsFromData(data, columns)
    /\ history = <<>>
    /\ historyIndex = -1
    /\ timer = <<data>>
    /\ mounted = TRUE
    /\ reported = <<>>
    /\ clipboard = <<>>
    /\ last = NoEvent
    /\ steps = 0

CanStep == mounted /\ steps < MaxSteps

\* The state updates of applyChanges with a report effect that leaves a
\* pending timer alone, so that the timer fires with the data it was armed
\* with.
CommitKeepsTimer(res, op, arg) ==
    /\ last' = Event(op, arg, "undefined", res.threw, <<>>)
    /\ IF res.threw
       THEN UNCHANGED <<gridData, cells, history, historyIndex, timer>>
       ELSE /\ gridData' = res.data
            /\ cells' = res.cells
            /\ history' = IF res.changed
                          THEN PushHistory(history, historyIndex, res.diff)
                          ELSE history
            /\ historyIndex' = IF res.changed THEN historyIndex + 1 ELSE historyIndex
            /\ timer' = IF timer = <<>> THEN <<res.data>> ELSE timer

\* The state updates of applyChanges and the render they cause: the report
\* effect re-arms the timer because setData returned a new array.  A
\* TypeError in the updater leaves the state as it was.
Commit(res, op, arg) ==
    /\ last' = Event(op, arg, "undefined", res.threw, <<>>)
    /\ IF res.threw
       THEN UNCHANGED <<gridData, cells, history, historyIndex, timer>>
       ELSE /\ gridData' = res.data
            /\ cells' = res.cells
            /\ history' = IF res.changed
                          THEN PushHistory(history, historyIndex, res.diff)
                          ELSE history
            /\ historyIndex' = IF res.changed THEN historyIndex + 1 ELSE historyIndex
            /\ timer' = <<res.data>>

\* A handler that returns early.
Return(op, arg) ==
    /\ last' = Event(op, arg, "undefined", FALSE, <<>>)
    /\ UNCHANGED <<gridData, cells, history, historyIndex, timer>>

applyChanges(changes, op, arg) ==
    IF changes = <<>> THEN Return(op, arg)
    ELSE Commit(applyChangesResult(gridData, cells, changes, columns, isExtendable, tz),
                op, arg)

\* getCompatibleCell of the number and percent templates: a value that is not
\* a number becomes NaN.  (The library's date template likewise turns a
\* missing date into an Invalid Date.)
getCompatibleCell(cell) ==
    CASE cell.type \in {"customnumber", "percent"} ->
            [cell EXCEPT !.value = IF cell.value.t \in {"num", "nan"} THEN cell.value ELSE NaN]
      [] cell.type = "date" ->
            [cell EXCEPT !.date = IF Truthy(cell.date) THEN cell.date ELSE InvalidDate]
      [] OTHER -> cell

\* The cells a user can turn the rendered cell into by editing it.
EditedCells(col, cell) ==
    CASE col.type = "text" -> {[cell EXCEPT !.text = v] : v \in {EmptyStr, Str(T_b)}}
      [] col.type = "number" -> {[cell EXCEPT !.value = v] : v \in {NaN, Num(0), Num(7 * SCALE)}}
      [] col.type = "percent" -> {[cell EXCEPT !.value = v] : v \in {NaN, Num(SCALE \div 4)}}
      [] col.type = "date" ->
            {[cell EXCEPT !.date = DateObj(IsoDateDays(T_date1)[1] * MinutesPerDay - off)] :
                off \in {0, tz}}
      [] col.type = "checkbox" -> {[cell EXCEPT !.checked = Bool(cell.checked.n = 0)]}
      [] OTHER ->
            {[cell EXCEPT !.selectedValue = v, !.isOpen = FALSE] :
                v \in {col.values[i].value : i \in 1..Len(col.values)}}
            \cup {[cell EXCEPT !.isOpen = ~cell.isOpen]}

\* onCellsChanged: the grid library reports the edit of one rendered cell; it
\* reports no edit that leaves the cell as it was.
EditCell(r, c, previousCell) ==
    \E newCell \in EditedCells(columns[c], previousCell) \ {previousCell} :
        applyChanges(<<[rowId |-> r, columnId |-> columns[c].columnId,
                        previousCell |-> previousCell, newCell |-> newCell]>>,
                     "edit", [NoArg EXCEPT !.at = <<r, c>>])

Edit ==
    /\ CanStep
    /\ \E r \in 0..(Len(cells) - 2), c \in 1..Len(columns) :
        EditCell(r, c, getCompatibleCell(cells[r + 2].cells[c]))
    /\ steps' = steps + 1
    /\ UNCHANGED <<props, data, selectedRange, selectedCell, mounted, reported, clipboard>>

\* A text that parseToValue understands for the column's type.
GoodText(col) ==
    CASE col.type = "text" -> T_b
      [] col.type = "number" -> <<"7">>
      [] col.type = "percent" -> <<"2", "5", "%">>
      [] col.type = "date" -> T_short
      [] col.type = "checkbox" -> <<"y", "e", "s">>
      [] OTHER -> <<"Z">>

T_x == <<"x">>

\* The texts a user pastes: one cell no typed column can parse, a row of
\* parseable cells ending in CRLF, and a block with more rows and columns
\* than the grid has.
TextsWith(good) ==
    {T_x,
     good \o <<"\r", "\n">>,
     Join(<<good \o <<"\t">> \o T_x, T_x \o <<"\t">> \o T_x, good, T_x>>, "\n")}

PasteTexts(cols) == TextsWith(Join([c \in 1..Len(cols) |-> GoodText(cols[c])], "\t"))

\* handlePaste.  input is [isRGHtml, rows, plain]: rows are the cell texts of a
\* grid-library HTML table, plain is the text/plain of the clipboard.
PastedRows(input) == IF input.isRGHtml THEN input.rows ELSE PlainRows(input.plain)

PasteRows(pastedRows) ==
    IF pastedRows = <<>> THEN Return("paste", NoArg)
    ELSE applyChanges(PasteChanges(pastedRows, 0, selectedRange[1], gridData, columns,
                                   isExtendable, tz), "paste",
                      [NoArg EXCEPT !.rows = pastedRows])

\* The recorded argument of a paste is the rows of cell texts it read.
handlePaste(input) ==
    IF selectedRange = <<>> THEN Return("paste", NoArg) ELSE PasteRows(PastedRows(input))

PasteInputs ==
    {[isRGHtml |-> FALSE, rows |-> <<>>, plain |-> x] :
        x \in PasteTexts(columns) \cup {clipboard}}
    \cup {[isRGHtml |-> TRUE, rows |-> <<<<T_b, T_x>>>>, plain |-> <<>>]}

Paste ==
    /\ CanStep
    /\ \E input \in PasteInputs : handlePaste(input)
    /\ steps' = steps + 1
    /\ UNCHANGED <<props, data, selectedRange, selectedCell, mounted, reported, clipboard>>

\* handleCopy
Copy ==
    /\ CanStep
    /\ IF selectedRange = <<>>
       THEN /\ clipboard' = clipboard
            /\ last' = Event("copy", NoArg, "undefined", FALSE, <<>>)
       ELSE IF RangeInGrid(selectedRange[1], gridData, columns)
       THEN /\ clipboard' = selectedRangeToTable(selectedRange[1], gridData, columns)
            /\ last' = Event("copy", [NoArg EXCEPT !.ranges = selectedRange], "undefined",
                         FALSE, <<>>)
       ELSE /\ clipboard' = clipboard
            /\ last' = Event("copy", [NoArg EXCEPT !.ranges = selectedRange], "undefined",
                         TRUE, <<>>)
    /\ steps' = steps + 1
    /\ UNCHANGED <<props, data, selectedRange, selectedCell, gridData, cells, history,
                   historyIndex, timer, mounted, reported>>

\* batch.forEach of handleUndoChanges (field previousValue) and of
\* handleRedoChanges (field newValue) on the copy next of gridData.
RECURSIVE ApplyBatch(_, _, _, _)
WriteEntry(next, e, colIdx, field) ==
    IF colIdx # 0 /\ e.rowId < Len(next)
    THEN [next EXCEPT ![e.rowId + 1][colIdx] = e[field]]
    ELSE next

ApplyBatch(next, batch, cols, field) ==
    IF batch = <<>> THEN next
    ELSE ApplyBatch(WriteEntry(next, Head(batch), columnLookup(cols, Head(batch).columnId),
                               field),
                    Tail(batch), cols, field)

\* history[i] for the index i of the code; <<>> stands for undefined.
BatchAt(h, i) == IF i + 1 \in 1..Len(h) THEN h[i + 1] ELSE <<>>

\* The data handleUndoChanges passes to setData.
undoData(d, h, hIdx, cols) == ApplyBatch(d, BatchAt(h, hIdx), cols, "previousValue")

\* The data handleRedoChanges passes to setData.
redoData(d, h, hIdx, cols) == ApplyBatch(d, BatchAt(h, hIdx + 1), cols, "newValue")

\* batch.forEach on an undefined batch is a TypeError.
UndoThrows == historyIndex >= Len(history)

RedoThrows == historyIndex + 1 < 0

\* An undo whose setData does not reach the report effect.
UndoWithoutReport ==
    IF historyIndex < 0 \/ UndoThrows
    THEN UNCHANGED <<gridData, historyIndex, timer>>
    ELSE /\ gridData' = undoData(gridData, history, historyIndex, columns)
         /\ historyIndex' = historyIndex - 1
         /\ timer' = timer

\* An undo that hands setData a fresh copy even when nothing can be undone.
UndoAlwaysSetsData ==
    IF historyIndex < 0 \/ UndoThrows
    THEN /\ gridData' = gridData
         /\ historyIndex' = historyIndex
         /\ timer' = <<gridData>>
    ELSE /\ gridData' = undoData(gridData, history, historyIndex, columns)
         /\ historyIndex' = historyIndex - 1
         /\ timer' = <<gridData'>>

handleUndoChanges ==
    IF historyIndex < 0 \/ UndoThrows
    THEN UNCHANGED <<gridData, historyIndex, timer>>
    ELSE /\ gridData' = undoData(gridData, history, historyIndex, columns)
         /\ historyIndex' = historyIndex - 1
         /\ timer' = <<gridData'>>

handleRedoChanges ==
    IF historyIndex + 1 >= Len(history) \/ RedoThrows
    THEN UNCHANGED <<gridData, historyIndex, timer>>
    ELSE /\ gridData' = redoData(gridData, history, historyIndex, columns)
         /\ historyIndex' = historyIndex + 1
         /\ timer' = <<gridData'>>

\* handleKeyDown with Ctrl/Cmd+Z
Undo ==
    /\ CanStep
    /\ handleUndoChanges
    /\ last' = Event("undo", NoArg, "undefined", historyIndex >= 0 /\ UndoThrows, <<>>)
    /\ steps' = steps + 1
    /\ UNCHANGED <<props, data, selectedRange, selectedCell, cells, history, mounted,
                   reported, clipboard>>

\* handleKeyDown with Ctrl/Cmd+Y or Ctrl/Cmd+Shift+Z
Redo ==
    /\ CanStep
    /\ handleRedoChanges
    /\ last' = Event("redo", NoArg, "undefined",
                     historyIndex + 1 < Len(history) /\ RedoThrows, <<>>)
    /\ steps' = steps + 1
    /\ UNCHANGED <<props, data, selectedRange, selectedCell, cells, history, mounted,
                   reported, clipboard>>

\* Two calls of a handler before the component renders again: both calls
\* are the callback of the same render and see its gridData, history and
\* historyIndex, while the functional updates (setHistoryIndex(prev => ...),
\* the updaters of applyChanges) are applied one after the other.

\* handleUndoChanges twice: both pass the guard, both compute the same next.
UndoTwice ==
    /\ CanStep
    /\ IF historyIndex < 0 \/ UndoThrows
       THEN UNCHANGED <<gridData, historyIndex, timer>>
       ELSE /\ gridData' = undoData(gridData, history, historyIndex, columns)
            /\ historyIndex' = historyIndex - 2
            /\ timer' = <<gridData'>>
    /\ last' = Event("undoTwice", NoArg, "undefined", historyIndex >= 0 /\ UndoThrows, <<>>)
    /\ steps' = steps + 1
    /\ UNCHANGED <<props, data, selectedRange, selectedCell, cells, history, mounted,
                   reported, clipboard>>

\* handleRedoChanges twice.
RedoTwice ==
    /\ CanStep
    /\ IF historyIndex + 1 >= Len(history) \/ RedoThrows
       THEN UNCHANGED <<gridData, historyIndex, timer>>
       ELSE /\ gridData' = redoData(gridData, history, historyIndex, columns)
            /\ historyIndex' = historyIndex + 2
            /\ timer' = <<gridData'>>
    /\ last' = Event("redoTwice", NoArg, "undefined",
                     historyIndex + 1 < Len(history) /\ RedoThrows, <<>>)
    /\ steps' = steps + 1
    /\ UNCHANGED <<props, data, selectedRange, selectedCell, cells, history, mounted,
                   reported, clipboard>>

\* The state after two runs of applyChanges: the second updater starts from
\* the data and cells of the first, each setHistory slices at the captured
\* historyIndex, each setHistoryIndex adds one.
PushIf(h, hIdx, res) == IF res.changed THEN PushHistory(h, hIdx, res.diff) ELSE h

CountIf(res) == IF res.changed THEN 1 ELSE 0

CommitTwice(res1, res2, op, arg) ==
    /\ last' = Event(op, arg, "undefined", res1.threw \/ res2.threw, <<>>)
    /\ IF res1.threw \/ res2.threw
       THEN UNCHANGED <<gridData, cells, history, historyIndex, timer>>
       ELSE /\ gridData' = res2.data
            /\ cells' = res2.cells
            /\ history' = PushIf(PushIf(history, historyIndex, res1), historyIndex, res2)
            /\ historyIndex' = historyIndex + CountIf(res1) + CountIf(res2)
            /\ timer' = <<res2.data>>

SecondRun(res1, changes, op, arg) ==
    CommitTwice(res1,
                applyChangesResult(res1.data, res1.cells, changes, columns, isExtendable, tz),
                op, arg)

applyChangesTwice(changes, op, arg) ==
    SecondRun(applyChangesResult(gridData, cells, changes, columns, isExtendable, tz),
              changes, op, arg)

\* onCellsChanged delivered twice with the same edit of one rendered cell.
EditCellTwice(r, c, previousCell) ==
    \E newCell \in EditedCells(columns[c], previousCell) \ {previousCell} :
        applyChangesTwice(<<[rowId |-> r, columnId |-> columns[c].columnId,
                             previousCell |-> previousCell, newCell |-> newCell]>>,
                          "editTwice", [NoArg EXCEPT !.at = <<r, c>>])

EditTwice ==
    /\ CanStep
    /\ \E r \in 0..(Len(cells) - 2), c \in 1..Len(columns) :
        EditCellTwice(r, c, getCompatibleCell(cells[r + 2].cells[c]))
    /\ steps' = steps + 1
    /\ UNCHANGED <<props, data, selectedRange, selectedCell, mounted, reported, clipboard>>

Cell(r, c) == [r1 |-> r, r2 |-> r, c1 |-> c, c2 |-> c]

\* The ranges the grid library reports: a cell of the first column in any row
\* (row idx 0 is the header), the last cell, the whole grid.
Ranges ==
    {Cell(r, 0) : r \in 0..Len(gridData)}
    \cup {Cell(Len(gridData), Len(columns) - 1),
          [r1 |-> 0, r2 |-> Len(gridData), c1 |-> 0, c2 |-> Len(columns) - 1]}

RangeLists == {<<>>} \cup {<<r>> : r \in Ranges}

\* What a selection or focus handler does with its argument: its calls of
\* setProps and what it returns.
handleSelectionChanged(r) ==
    [sent |-> <<[key |-> "selectedRange", val |-> r]>>, ret |-> "undefined"]

\* A selection-changing handler that reports nothing and vetoes the selection.
VetoSelection(r) == [sent |-> <<>>, ret |-> "false"]

handleSelectionChanging(r) ==
    [sent |-> <<[key |-> "selectedRange", val |-> r]>>, ret |-> "true"]

handleFocusLocationChanged(loc) ==
    [sent |-> <<[key |-> "selectedCell", val |-> loc]>>, ret |-> "undefined"]

\* The host stores what setProps is given and hands it back as the prop.
Selected(op, r, call) ==
    /\ selectedRange' = IF call.sent = <<>> THEN selectedRange ELSE call.sent[1].val
    /\ last' = Event(op, [NoArg EXCEPT !.ranges = r], call.ret, FALSE, call.sent)

\* onSelectionChanged
SelectionChanged ==
    /\ CanStep
    /\ \E r \in RangeLists : Selected("selectionChanged", r, handleSelectionChanged(r))
    /\ steps' = steps + 1
    /\ UNCHANGED <<props, data, selectedCell, gridData, cells, history, historyIndex,
                   timer, mounted, reported, clipboard>>

\* onSelectionChanging
SelectionChanging ==
    /\ CanStep
    /\ \E r \in RangeLists : Selected("selectionChanging", r, handleSelectionChanging(r))
    /\ steps' = steps + 1
    /\ UNCHANGED <<props, data, selectedCell, gridData, cells, history, historyIndex,
                   timer, mounted, reported, clipboard>>

Focus(loc, call) ==
    /\ selectedCell' = IF call.sent = <<>> THEN selectedCell ELSE <<call.sent[1].val>>
    /\ last' = Event("focusLocationChanged", [NoArg EXCEPT !.loc = <<loc>>], call.ret,
                     FALSE, call.sent)

\* onFocusLocationChanged; the location is a cell of the header row or of the
\* last row.
FocusLocationChanged ==
    /\ CanStep
    /\ \E r \in {HeaderRowId, Len(gridData) - 1}, c \in {1, Len(columns)} :
        Focus([rowId |-> r, columnId |-> columns[c].columnId],
              handleFocusLocationChanged([rowId |-> r, columnId |-> columns[c].columnId]))
    /\ steps' = steps + 1
    /\ UNCHANGED <<props, data, selectedRange, gridData, cells, history, historyIndex,
                   timer, mounted, reported, clipboard>>

\* A sync effect that also forgets the history.
HostUpdateResetsHistory ==
    /\ CanStep
    /\ \E d \in HostData(columns) :
        /\ data' = d
        /\ gridData' = d
        /\ cells' = buildCellsFromData(d, columns)
        /\ timer' = <<d>>
    /\ history' = <<>>
    /\ historyIndex' = -1
    /\ last' = Event("hostUpdate", NoArg, "undefined", FALSE, <<>>)
    /\ steps' = steps + 1
    /\ UNCHANGED <<props, selectedRange, selectedCell, mounted, reported, clipboard>>

\* The host delivers a new data prop: the sync effect replaces gridData and
\* cells, and the report effect re-arms the timer for the new gridData.
HostUpdate ==
    /\ CanStep
    /\ \E d \in HostData(columns) :
        /\ data' = d
        /\ gridData' = d
        /\ cells' = buildCellsFromData(d, columns)
        /\ timer' = <<d>>
    /\ last' = Event("hostUpdate", NoArg, "undefined", FALSE, <<>>)
    /\ steps' = steps + 1
    /\ UNCHANGED <<props, selectedRange, selectedCell, history, historyIndex, mounted,
                   reported, clipboard>>

\* A report whose answer from the host is a new array with the same content:
\* setData takes it as a change and the report effect arms the timer again.
TimerFireEchoedAsCopy ==
    /\ timer # <<>>
    /\ reported' = timer
    /\ data' = timer[1]
    /\ cells' = buildCellsFromData(timer[1], columns)
    /\ timer' = <<timer[1]>>
    /\ last' = Event("report", NoArg, "undefined", FALSE,
                     <<[key |-> "data", val |-> timer[1]]>>)
    /\ UNCHANGED <<props, selectedRange, selectedCell, gridData, history, historyIndex,
                   mounted, clipboard, steps>>

\* The report timer fires after THROTTLE_DELAY: setProps({data: gridData}).
\* The host stores the data and hands it back as the data prop; it is the
\* very array gridData holds, so setData keeps it and cells are rebuilt.
\* A timer that is pending fires whether or not the component is mounted.
TimerFire ==
    /\ timer # <<>>
    /\ reported' = timer
    /\ data' = timer[1]
    /\ cells' = buildCellsFromData(timer[1], columns)
    /\ timer' = <<>>
    /\ last' = Event("report", NoArg, "undefined", FALSE,
                     <<[key |-> "data", val |-> timer[1]]>>)
    /\ UNCHANGED <<props, selectedRange, selectedCell, gridData, history, historyIndex,
                   mounted, clipboard, steps>>

\* An unmount whose effect cleanup leaves the pending timer alone.
UnmountKeepsTimer ==
    /\ CanStep
    /\ mounted' = FALSE
    /\ timer' = timer
    /\ last' = Event("unmount", NoArg, "undefined", FALSE, <<>>)
    /\ steps' = steps + 1
    /\ UNCHANGED <<props, data, selectedRange, selectedCell, gridData, cells, history,
                   historyIndex, reported, clipboard>>

\* Unmount: the cleanup of the report effect clears the timer.
Unmount ==
    /\ CanStep
    /\ mounted' = FALSE
    /\ timer' = <<>>
    /\ last' = Event("unmount", NoArg, "undefined", FALSE, <<>>)
    /\ steps' = steps + 1
    /\ UNCHANGED <<props, data, selectedRange, selectedCell, gridData, cells, history,
                   historyIndex, reported, clipboard>>

Next ==
    \/ Edit
    \/ Paste
    \/ Copy
    \/ Undo
    \/ Redo
    \/ EditTwice
    \/ UndoTwice
    \/ RedoTwice
    \/ SelectionChanged
    \/ SelectionChanging
    \/ FocusLocationChanged
    \/ HostUpdate
    \/ TimerFire
    \/ Unmount

Spec == Init /\ [][Next]_vars

\* The browser runs a timer that stays pending: the callback of setTimeout
\* is called unless clearTimeout cancels it.
FairSpec == Spec /\ WF_vars(TimerFire)

\* ------------------------------------------------------------------------
\* Properties
\* ------------------------------------------------------------------------

RecordedBatch ==
    /\ last'.op \in {"edit", "paste"}
    /\ steps' = steps + 1
    /\ historyIndex' = historyIndex + 1

\* C2: an undo right after a batch that recorded history and left the number
\* of rows alone gives back the gridData from before the batch, cell for
\* cell, whatever the cells held (0, false, '' and null included).
C2_UndoRestoresBatch ==
    [][(RecordedBatch /\ Len(gridData') = Len(gridData))
        => undoData(gridData', history', historyIndex', columns) = gridData]_vars

\* gridData after an undo and the redo that follows it.  (history is not
\* touched by either, and historyIndex goes down by one and up by one.)
UndoThenRedo ==
    redoData(undoData(gridData, history, historyIndex, columns),
             history, historyIndex - 1, columns)

\* C3: wherever something can be undone, undo followed by redo leaves
\* gridData as it was, with and without isExtendable.
C3_RedoInvertsUndo == historyIndex >= 0 => UndoThenRedo = gridData

Fallback(col, text) ==
    CASE col.type = "text" -> Str(text)
      [] col.type \in {"number", "percent"} -> NaN
      [] col.type = "dropdown" -> Null
      [] col.type = "checkbox" -> Bool(FALSE)
      [] OTHER -> EmptyStr

\* A paste of the one cell text at a data cell of a grid of fixed size that
\* ran to its end.
PastedOneCell(text) ==
    /\ last'.op = "paste"
    /\ steps' = steps + 1
    /\ ~last'.threw
    /\ last'.arg.rows = <<<<text>>>>
    /\ ~isExtendable
    /\ selectedRange # <<>>
    /\ selectedRange[1].r1 \in 1..Len(gridData)

StoredOrKept(r, c, v) == gridData'[r][c] = v \/ gridData'[r][c] = gridData[r][c]

\* C5: a pasted text that cannot be parsed for the column's type is stored as
\* the text itself in a text column and as the type's empty value in a typed
\* column (NaN, null, false, ''), never as any other value.
C5_ParseFailureFallback ==
    [][PastedOneCell(T_x)
        => StoredOrKept(selectedRange[1].r1, selectedRange[1].c1 + 1,
                        Fallback(columns[selectedRange[1].c1 + 1], T_x))]_vars

\* A paste of a block of cell texts into a grid of fixed size, anchored at a
\* data row.
FixedPaste ==
    /\ last'.op = "paste"
    /\ steps' = steps + 1
    /\ ~isExtendable
    /\ selectedRange # <<>>
    /\ selectedRange[1].r1 >= 1
    /\ last'.arg.rows # <<>>

\* Data row r (from 1) and column c (from 1) lie in the window the block
\* covers when anchored at the first cell of the range.
InWindow(r, c, range, rows) ==
    /\ r - range.r1 \in 0..(Len(rows) - 1)
    /\ c - 1 - range.c1 \in 0..(Len(rows[r - range.r1 + 1]) - 1)

\* The cell ends with the coerced value of the text pasted on it, or as it
\* was; an unparseable text leaves a checkbox false.
HoldsPasted(r, c, coerced) ==
    \/ gridData'[r][c] = coerced
    \/ gridData'[r][c] = gridData[r][c]
    \/ columns[c].type = "checkbox" /\ coerced = Null /\ gridData'[r][c] = Bool(FALSE)

PastedInto(r, c, range, rows) ==
    IF InWindow(r, c, range, rows)
    THEN HoldsPasted(r, c, parseToValue(rows[r - range.r1 + 1][c - range.c1], columns[c], tz))
    ELSE gridData'[r][c] = gridData[r][c]

\* C6: in a grid of fixed size a pasted block never raises an error, leaves
\* the number of rows and their lengths alone, changes no cell outside the
\* window it covers, and leaves in every cell of the window the coerced value
\* of the text pasted on it.
C6_PasteOverflowFixed ==
    [][FixedPaste
        => /\ ~last'.threw
           /\ Len(gridData') = Len(gridData)
           /\ \A r \in 1..Len(gridData) :
                /\ Len(gridData'[r]) = Len(gridData[r])
                /\ \A c \in 1..Len(columns) : PastedInto(r, c, selectedRange[1], last'.arg.rows)]_vars

\* An edit, or a paste that built at least one change, in an extendable grid:
\* applyChanges was given a batch that is not empty.
ExtendableBatch ==
    /\ last'.op \in {"edit", "paste"}
    /\ steps' = steps + 1
    /\ isExtendable
    /\ last'.op = "paste" =>
        /\ selectedRange # <<>>
        /\ last'.arg.rows # <<>>
        /\ PasteChanges(last'.arg.rows, 0, selectedRange[1], gridData, columns, TRUE, tz) # <<>>

\* One empty row at the end, and only one.
OneEmptyTrailingRow(d) ==
    /\ Len(d) >= 1
    /\ ~SomeTruthy(d[Len(d)])
    /\ Len(d) >= 2 => SomeTruthy(d[Len(d) - 1])

\* The pasted text at data row rowId (from 0) and column col (from 1), when it
\* falls below the grid and denotes a truthy value, is in the grid afterwards.
Extended(text, rowId, col) ==
    (rowId >= Len(gridData) /\ rowId >= 0 /\ col <= Len(columns)
        /\ Truthy(parseToValue(text, columns[col], tz)))
    => (Len(gridData') > rowId /\ Truthy(gridData'[rowId + 1][col]))

PasteExtended(range, rows) ==
    \A i \in 1..Len(rows) : \A j \in 1..Len(rows[i]) :
        Extended(rows[i][j], range.r1 + i - 2, range.c1 + j)

\* C7: in an extendable grid a change below the last row is not skipped, the
\* grid being extended to take it, and after every batch that is not empty
\* gridData ends with exactly one empty row.
C7_ExtendableTrailingRow ==
    [][ExtendableBatch
        => /\ ~last'.threw
           /\ OneEmptyTrailingRow(gridData')
           /\ last'.op = "paste" => PasteExtended(selectedRange[1], last'.arg.rows)]_vars

\* The text a copied cell is to have: the title in the header row (row idx
\* 0), else the string form of the value for the column's type.
CopiedText(row, column) ==
    IF row = 0 THEN columns[column].title.s
    ELSE JoinText(getValueAsString(columns[column], gridData[row][column]))

CopiedTable(range) ==
    Join([i \in 1..(range.r2 - range.r1 + 1) |->
            Join([j \in 1..(range.c2 - range.c1 + 1) |->
                    CopiedText(range.r1 + i - 1, range.c1 + j)],
                 "\t")],
         "\n")

\* C8: handleCopy with an active range puts on the clipboard the rows of the
\* range joined by newlines, the cells of a row joined by tabs; a cell of the
\* header row is the column's title, a cell of a data row the string form of
\* its value, for every column type.
C8_CopyOutput ==
    [][(last'.op = "copy" /\ steps' = steps + 1 /\ selectedRange # <<>>
            /\ RangeInGrid(selectedRange[1], gridData, columns))
        => clipboard' = CopiedTable(selectedRange[1])]_vars

\* A paste, at the first cell of a selected range of data rows, of the very
\* text handleCopy produces for that range.
PastedOwnCopy ==
    /\ last'.op = "paste"
    /\ steps' = steps + 1
    /\ selectedRange # <<>>
    /\ selectedRange[1].r1 >= 1
    /\ RangeInGrid(selectedRange[1], gridData, columns)
    /\ last'.arg.rows = PlainRows(selectedRangeToTable(selectedRange[1], gridData, columns))

\* C9: pasting what was copied from a range of data rows back at the same
\* anchor changes no value of gridData and appends nothing to history, for
\* every column type and for null cells.
C9_CopyPasteRoundTrip ==
    [][PastedOwnCopy => (~last'.threw /\ gridData' = gridData /\ history' = history)]_vars

SelectionOps == {"selectionChanged", "selectionChanging", "focusLocationChanged"}

\* What the last selection or focus handler did with its argument.
SelectionReported ==
    /\ last.op \in {"selectionChanged", "selectionChanging"}
        => last.sent = <<[key |-> "selectedRange", val |-> last.arg.ranges]>>
    /\ last.op = "selectionChanging" => last.ret = "true"
    /\ last.op = "focusLocationChanged"
        => last.sent = <<[key |-> "selectedCell", val |-> last.arg.loc[1]]>>

\* C10: a selection-changed or selection-changing event calls
\* setProps({selectedRange: r}) with the very list r it received, the
\* selection-changing handler returns true, a focus change calls
\* setProps({selectedCell: c}), and none of the three changes gridData,
\* cells, history or historyIndex.
C10_SelectionReporting ==
    /\ []SelectionReported
    /\ [][(last'.op \in SelectionOps /\ steps' = steps + 1)
            => UNCHANGED <<gridData, cells, history, historyIndex>>]_vars

\* A selection-changing event after an edit that recorded history.
C10_Witness ==
    /\ last.op = "selectionChanging"
    /\ last.arg.ranges # <<>>
    /\ selectedRange = last.arg.ranges
    /\ historyIndex = 0
    /\ gridData # data

\* A paste of one cell text onto a data cell of a grid of fixed size whose
\* current value is null.
PastedOntoNull ==
    /\ last'.op = "paste"
    /\ steps' = steps + 1
    /\ ~isExtendable
    /\ selectedRange # <<>>
    /\ selectedRange[1].r1 \in 1..Len(gridData)
    /\ gridData[selectedRange[1].r1][selectedRange[1].c1 + 1] = Null
    /\ Len(last'.arg.rows) = 1
    /\ Len(last'.arg.rows[1]) = 1

\* The value applyChanges reads from the new cell handlePaste builds.
PastedValue(text, col) ==
    getCellDataByType(col.type, createCell(col, parseToValue(text, col, tz), FALSE), tz)

\* The cell holds the new value; a new value that is empty may leave the
\* null in place.
HoldsNew(r, c, v) ==
    \/ gridData'[r][c] = v
    \/ ~Truthy(v) /\ gridData'[r][c] = Null

\* C11: a batch whose previous cell was built by createCell from null, as in
\* a paste onto a cell that holds null, is processed without an error, and
\* gridData then holds the new value, for every column type.
C11_NullTolerated ==
    [][PastedOntoNull
        => /\ ~last'.threw
           /\ HoldsNew(selectedRange[1].r1, selectedRange[1].c1 + 1,
                       PastedValue(last'.arg.rows[1][1], columns[selectedRange[1].c1 + 1]))]_vars

\* C12: when the host delivers a new data prop, gridData becomes that data
\* and cells is rebuilt from it, while history and historyIndex stay as they
\* were, so that the batch an undo would apply is one recorded against the
\* data that was replaced.
C12_HostDataReplaces ==
    /\ [](last.op = "hostUpdate"
            => (gridData = data /\ cells = buildCellsFromData(data, columns)))
    /\ [][(last'.op = "hostUpdate" /\ steps' = steps + 1)
            => (history' = history /\ historyIndex' = historyIndex)]_vars

\* The host replaced the data after an edit: the batch that can be undone
\* names a cell that no longer holds the batch's new value.
C12_Witness ==
    /\ last.op = "hostUpdate"
    /\ historyIndex = 0
    /\ history[1] # <<>>
    /\ history[1][1].rowId < Len(gridData)
    /\ gridData[history[1][1].rowId + 1][columnLookup(columns, history[1][1].columnId)]
         # history[1][1].newValue
    /\ undoData(gridData, history, historyIndex, columns) # gridData

\* C13: the history pointer stays within the history, -1 <= historyIndex <=
\* history.length - 1, in every reachable state, also when a handler ran
\* twice before the component rendered again.
C13_HistoryPointer == -1 <= historyIndex /\ historyIndex <= Len(history) - 1

\* The first n entries of history are kept.
KeepsEntries(n) ==
    \A k \in 1..n : k <= Len(history) /\ k <= Len(history') /\ history'[k] = history[k]

\* C14: when applyChanges records a batch while historyIndex = i, history
\* then has i + 2 entries, the first i + 1 of them as before, historyIndex is
\* i + 1, and nothing is left to redo.
C14_RedoTailDiscarded ==
    [][RecordedBatch
        => /\ Len(history') = historyIndex + 2
           /\ KeepsEntries(historyIndex + 1)
           /\ historyIndex' + 1 >= Len(history')]_vars

\* An undo with nothing to undo, or a redo with nothing to redo.
AtEndOfHistory ==
    /\ steps' = steps + 1
    /\ \/ last'.op \in {"undo", "undoTwice"} /\ historyIndex < 0
       \/ last'.op \in {"redo", "redoTwice"} /\ historyIndex + 1 >= Len(history)

\* C15: handleUndoChanges with historyIndex < 0 and handleRedoChanges with
\* historyIndex + 1 >= history.length leave gridData, cells, history and
\* historyIndex as they were and schedule no report: the timer is neither
\* armed nor re-armed and setProps is not called.
C15_NoOpAtEnds ==
    [][AtEndOfHistory
        => /\ UNCHANGED <<gridData, cells, history, historyIndex, timer, reported>>
           /\ last'.sent = <<>>
           /\ ~last'.threw]_vars

\* An undo with an empty history, after the report of the mount: no report is
\* pending afterwards.
C15_Witness ==
    /\ last.op = "undo"
    /\ history = <<>>
    /\ historyIndex = -1
    /\ timer = <<>>
    /\ reported = <<gridData>>

\* The last event was an edit that recorded a change, and the report of the
\* gridData it produced is still pending.
EditPending ==
    /\ last.op = "edit"
    /\ ~last.threw
    /\ history # <<>>
    /\ timer = <<gridData>>

\* The edited cell holds the edited value after the step.
EditedCellKept ==
    /\ last.arg.at[1] + 1 <= Len(gridData')
    /\ gridData'[last.arg.at[1] + 1][last.arg.at[2]]
         = gridData[last.arg.at[1] + 1][last.arg.at[2]]

\* C16: when the host delivers a new data prop while the throttled report of
\* an edit is still pending, the edit is not lost: the pending report still
\* carries the edited gridData, or the edited cell still holds the edited
\* value in gridData.
C16_EditNotLost ==
    [][(EditPending /\ last'.op = "hostUpdate")
        => (timer' = <<gridData>> \/ EditedCellKept)]_vars

\* The step in which the report timer fires.
ReportStep ==
    /\ timer # <<>>
    /\ timer' = <<>>
    /\ last'.op = "report"

\* C17: at most one report timer is pending; every change of gridData
\* cancels the pending timer and arms one for the new gridData; and a timer
\* that fires calls setProps once, with the gridData of that moment, so that
\* a value gridData held in between is never sent.
C17_ReportCoalesced ==
    [][/\ Len(timer') <= 1
       /\ gridData' # gridData => timer' = <<gridData'>>
       /\ ReportStep
            => /\ last'.sent = <<[key |-> "data", val |-> gridData]>>
               /\ reported' = <<gridData>>
               /\ gridData' = gridData]_vars

\* gridData changed twice after the mount and no timer has fired: the first
\* change was undone again, and the one pending timer holds the latest
\* gridData, not the value in between.
C17_Witness ==
    /\ steps = 2
    /\ last.op = "undo"
    /\ historyIndex = -1
    /\ Len(history) = 1
    /\ reported = <<>>
    /\ timer = <<gridData>>
    /\ redoData(gridData, history, historyIndex, columns) # gridData

\* C18: once the component is unmounted no report timer is pending, the one
\* that was pending at the unmount included, and no step calls
\* setProps({data}) any more.
C18_NoReportAfterUnmount ==
    [][/\ ~mounted' => timer' = <<>>
       /\ ~mounted => (reported' = reported /\ last'.op # "report")]_vars

\* The component was unmounted after an edit whose report was still pending,
\* as was the report of the mount: nothing was ever sent and no timer is left.
C18_Witness ==
    /\ ~mounted
    /\ last.op = "unmount"
    /\ history # <<>>
    /\ gridData # data
    /\ reported = <<>>
    /\ timer = <<>>

\* Nothing is left to exchange: no report timer is pending and, while the
\* component is mounted, the data prop is gridData and cells is built from it.
Quiescent ==
    /\ timer = <<>>
    /\ mounted => /\ data = gridData
                  /\ cells = buildCellsFromData(gridData, columns)

\* C19: when the user events have ended and the host answers each
\* setProps({data: G}) by handing G back as the data prop, the exchange ends
\* after finitely many reports in a state that stays quiescent.
C19_ExchangeTerminates == <>[]Quiescent

\* One edit was the only user event and its report has been answered: the
\* data prop is the edited gridData, cells is built from it and no timer is
\* pending.
C19_Witness ==
    /\ mounted
    /\ steps = 1
    /\ last.op = "report"
    /\ Len(history) = 1
    /\ historyIndex = 0
    /\ reported = <<gridData>>
    /\ data = gridData
    /\ cells = buildCellsFromData(gridData, columns)
    /\ timer = <<>>

\* Every rendered data cell is createCell of the value gridData holds for it,
\* the isOpen flag aside.
CellsFollowData ==
    /\ Len(cells) = Len(gridData) + 1
    /\ \A r \in 1..Len(gridData) :
        /\ Len(cells[r + 1].cells) = Len(gridData[r])
        /\ \A c \in 1..Len(gridData[r]) :
            [cells[r + 1].cells[c] EXCEPT !.isOpen = FALSE]
                = createCell(columns[c], gridData[r][c], FALSE)

\* C20: in every state reached when applyChanges, handleUndoChanges,
\* handleRedoChanges or a sync with host data has completed, each rendered
\* cell is createCell of the gridData value at its place, so that an undo or
\* a redo shows the restored values at once.
C20_CellsFollowData ==
    (/\ last.op \in {"edit", "paste", "editTwice", "undo", "redo", "undoTwice",
                     "redoTwice", "hostUpdate"}
     /\ ~last.threw)
        => CellsFollowData

====
